---- MODULE Spec2Model ----
(***************************************************************************)
(* rust-cursor-bench: a fixed-layout record (MyStruct) is serialized with  *)
(* bincode (big-endian, fixed-width integers) into a byte sink that        *)
(* implements std::io::Write.  The sinks are the seven the benchmarks use: *)
(* Cursor<Vec<u8>>, Cursor<&mut Vec<u8>>, WriterVec, a BytesMut writer,    *)
(* Cursor<&mut [u8]>, Cursor<Box<[u8]>> and &mut [u8].                     *)
(*                                                                         *)
(* Three specifications share the definitions of the encoder and sinks:    *)
(*   Spec      - serialize_it called on one growable and one fixed sink    *)
(*   SpecWV    - the WriterVec type driven through its own methods         *)
(*   SpecBench - the seven benchmark bodies (do_cursor_vec ... do_array)   *)
(*               and MyStruct::new on the indices they use                 *)
(***************************************************************************)
EXTENDS Integers, Sequences, FiniteSets

VARIABLES
    overflow_checks, \* the build: TRUE when integer overflow panics
    g,               \* Spec: the growable sink
    f,               \* Spec: the fixed-capacity sink
    ghist,           \* Spec: the items passed to serialize_it(_, g), in order
    fhist,           \* Spec: the items passed to serialize_it(_, f), in order
    gstatus,         \* Spec: "Ok" or "panic": how the last call on g ended
    fstatus,         \* Spec: same for f
    last,            \* Spec: the most recent serialize_it call
    emitted,         \* Spec: <<item, bytes>> of every call that returned
    wv,              \* SpecWV: the WriterVec
    wlog,            \* SpecWV: every buf handed to wv's write, concatenated
    wret,            \* SpecWV: what the last method call on wv returned
    inner,           \* SpecWV: the Vec into_inner returned
    bench,           \* SpecBench: the benchmark body that is running
    pc,              \* SpecBench: its position
    ii,              \* SpecBench: the loop index (where the loop ended)
    bpos,            \* SpecBench: its sink's position when it ended
    badv,            \* SpecBench: by how much its calls moved the position
    blen,            \* SpecBench: v.len() as its assertion read it
    bsum,            \* SpecBench: s, the byte sum, as its assertion read it
    made             \* SpecBench: what MyStruct::new(ii) gave

vars == <<overflow_checks, g, f, ghist, fhist, gstatus, fstatus, last,
          emitted, wv, wlog, wret, inner, bench, pc, ii, bpos, badv, blen, bsum, made>>

specVars == <<g, f, ghist, fhist, gstatus, fstatus, last, emitted>>
wvVars == <<wv, wlog, wret, inner>>
benchVars == <<bench, pc, ii, bpos, badv, blen, bsum, made>>

None == "none"

Min(x, y) == IF x < y THEN x ELSE y

Max(x, y) == IF x < y THEN y ELSE x

(***************************************************************************)
(* Bounds of the model.                                                    *)
(***************************************************************************)
\* serialize_it calls per sink in Spec
MaxRecords == 2

\* bytes written to the WriterVec in SpecWV
MaxWVBytes == 6

(***************************************************************************)
(* Program constants.                                                      *)
(***************************************************************************)
ENCODED_SIZE == 16

NUM_CHUNKS == 2048

BUFFER_SIZE == NUM_CHUNKS * ENCODED_SIZE

(***************************************************************************)
(* MyStruct and MyStruct::new.                                             *)
(***************************************************************************)
Panic == "panic"

\* `ii as u8 + 3`: the cast truncates, the u8 addition can exceed 255
COverflows(i) == (i % 256) + 3 > 255

\* MyStruct::new with `a: ii as u64` (the + 1 left out)
MyStructNewNoPlusOne(i, checks) ==
    IF checks /\ COverflows(i)
    THEN [ok |-> FALSE]
    ELSE [ok |-> TRUE,
          item |-> [a |-> i,
                    b |-> i + 2,
                    c |-> ((i % 256) + 3) % 256,
                    d |-> (i % 2) # 0,
                    e |-> 43605]]

\* MyStruct::new(ii) for ii below 2^31 - 2 (`ii as u64 + 1` and
\* `ii as u32 + 2` are then exact).  The u8 addition `ii as u8 + 3` panics
\* in a build with overflow checks and wraps in one without.
MyStructNew(i, checks) ==
    IF checks /\ COverflows(i)
    THEN [ok |-> FALSE]
    ELSE [ok |-> TRUE,
          item |-> [a |-> i + 1,
                    b |-> i + 2,
                    c |-> ((i % 256) + 3) % 256,
                    d |-> (i % 2) # 0,
                    e |-> 43605]]

(***************************************************************************)
(* The encoder: bincode DefaultOptions, big-endian, fixint.  The derived   *)
(* Serialize visits the fields in declaration order and the serializer     *)
(* hands each one to the writer's write_all as its own byte string.        *)
(***************************************************************************)
RECURSIVE to_le_bytes(_, _)
\* the n low-order bytes of v, least significant first (with_big_endian
\* left out of be_coder)
to_le_bytes(v, n) ==
    IF n = 0 THEN <<>> ELSE <<v % 256>> \o to_le_bytes(v \div 256, n - 1)

RECURSIVE to_be_bytes(_, _)
\* the n low-order bytes of v, most significant first
to_be_bytes(v, n) ==
    IF n = 0 THEN <<>> ELSE Append(to_be_bytes(v \div 256, n - 1), v % 256)

\* serialize_bool: v as u8
BoolByte(d) == IF d THEN 1 ELSE 0

\* bincode's default integer encoding (with_fixint_encoding left out of
\* be_coder): one byte below 251, else a marker and 2, 4 or 8 bytes
Varint(v, n) ==
    IF v < 251 THEN <<v>>
    ELSE IF v < 65536 THEN <<251>> \o to_be_bytes(v, 2)
    ELSE IF n = 4 \/ v \div 65536 < 65536 THEN <<252>> \o to_be_bytes(v, 4)
    ELSE <<253>> \o to_be_bytes(v, 8)

FieldWritesVarint(s) ==
    << Varint(s.a, 8),
       Varint(s.b, 4),
       to_be_bytes(s.c, 1),
       <<BoolByte(s.d)>>,
       Varint(s.e, 2) >>

\* the write_all calls one MyStruct makes, in order
FieldWrites(s) ==
    << to_be_bytes(s.a, 8),
       to_be_bytes(s.b, 4),
       to_be_bytes(s.c, 1),
       <<BoolByte(s.d)>>,
       to_be_bytes(s.e, 2) >>

(***************************************************************************)
(* The sinks.  A sink is a record; `buf` is the backing storage.  A write  *)
(* returns [sink |-> the sink afterwards, n |-> the count in Ok(n)].       *)
(***************************************************************************)
CursorVecKind == "Cursor<Vec<u8>>"

CursorVecRefKind == "Cursor<&mut Vec<u8>>"

WriterVecKind == "WriterVec"

BytesMutKind == "BytesMut"

CursorSliceKind == "Cursor<&mut [u8]>"

CursorBoxKind == "Cursor<Box<[u8]>>"

ArrayKind == "&mut [u8]"

GrowableKinds == {CursorVecKind, CursorVecRefKind, WriterVecKind, BytesMutKind}

FixedKinds == {CursorSliceKind, CursorBoxKind, ArrayKind}

Zeros(n) == [k \in 1..n |-> 0]

\* Cursor::new(Vec::new()), Cursor::new(&mut v): position 0 over an empty Vec
CursorVecNew(kind) == [kind |-> kind, buf |-> <<>>, pos |-> 0]

\* BytesMut::new().writer(), BytesMut::with_capacity(n).writer()
BytesMutNew == [kind |-> BytesMutKind, buf |-> <<>>]

\* WriterVec::with_capacity(n); WriterVec::new() is n = 0
WriterVecWithCapacity(n) == [kind |-> WriterVecKind, buf |-> <<>>, cap |-> n]

\* Cursor::new(&mut b[..]), Cursor::new(Box::new([0; n])), &mut b[..]:
\* n zero bytes; for &mut [u8], pos is where the remaining slice starts
FixedNew(kind, n) == [kind |-> kind, buf |-> Zeros(n), pos |-> 0]

\* the bytes a sink holds
Content(s) == s.buf

\* the sink's write position: a cursor's position, the start of what is
\* left of a slice, the length of an appended-to buffer
Position(s) ==
    IF s.kind \in {WriterVecKind, BytesMutKind} THEN Len(s.buf) ELSE s.pos

\* Vec::reserve as extend_from_slice calls it: amortized doubling, at least
\* 8 elements for a Vec<u8>
VecReserve(cap, len, additional) ==
    IF cap - len >= additional
    THEN cap
    ELSE Max(8, Max(2 * cap, len + additional))

\* WriterVec: a capacity that is never grown
WriterVecWriteNoGrow(s, data) ==
    LET n == Min(Len(data), Max(0, s.cap - Len(s.buf)))
    IN  [sink |-> [s EXCEPT !.buf = s.buf \o SubSeq(data, 1, n)], n |-> n]

\* WriterVec: write that puts the new bytes in front of the old ones
WriterVecWritePrepend(s, data) ==
    [sink |-> [s EXCEPT !.buf = data \o s.buf,
                        !.cap = VecReserve(s.cap, Len(s.buf), Len(data))],
     n |-> Len(data)]

\* <WriterVec as Write>::write: extend_from_slice, Ok(buf.len())
WriterVecWrite(s, data) ==
    [sink |-> [s EXCEPT !.buf = s.buf \o data,
                        !.cap = VecReserve(s.cap, Len(s.buf), Len(data))],
     n |-> Len(data)]

\* <Writer<BytesMut> as Write>::write: min(remaining_mut, len) bytes are
\* put; remaining_mut of a BytesMut is usize::MAX - len, never the limit here
BytesMutWrite(s, data) ==
    [sink |-> [s EXCEPT !.buf = s.buf \o data], n |-> Len(data)]

\* a Vec cursor write that leaves the position where it was
CursorVecWriteNoAdvance(s, data) ==
    LET n == Len(data)
    IN  [sink |-> [s EXCEPT
                     !.buf = SubSeq(s.buf, 1, s.pos) \o data
                             \o SubSeq(s.buf, s.pos + n + 1, Len(s.buf))],
         n |-> n]

\* <Cursor<Vec<u8>> as Write>::write: the Vec is zero-filled up to the
\* position, the bytes go in at the position (over what is there, then
\* extending the Vec), the position moves by their count
CursorVecWrite(s, data) ==
    LET padded == IF s.pos > Len(s.buf)
                  THEN s.buf \o Zeros(s.pos - Len(s.buf))
                  ELSE s.buf
        n == Len(data)
    IN  [sink |-> [s EXCEPT
                     !.buf = SubSeq(padded, 1, s.pos) \o data
                             \o SubSeq(padded, s.pos + n + 1, Len(padded)),
                     !.pos = s.pos + n],
         n |-> n]

\* a slice write that leaves the position where it was
SliceWriteNoAdvance(s, data) ==
    LET pos == Min(s.pos, Len(s.buf))
        amt == Min(Len(data), Len(s.buf) - pos)
    IN  [sink |-> [s EXCEPT
                     !.buf = SubSeq(s.buf, 1, pos) \o SubSeq(data, 1, amt)
                             \o SubSeq(s.buf, pos + amt + 1, Len(s.buf))],
         n |-> amt]

\* <Cursor<&mut [u8]> as Write>::write, <Cursor<Box<[u8]>> as Write>::write
\* and <&mut [u8] as Write>::write: as many bytes as fit are copied in at
\* the position, which moves by their count; Ok(0) when nothing fits
SliceWrite(s, data) ==
    LET pos == Min(s.pos, Len(s.buf))
        amt == Min(Len(data), Len(s.buf) - pos)
    IN  [sink |-> [s EXCEPT
                     !.buf = SubSeq(s.buf, 1, pos) \o SubSeq(data, 1, amt)
                             \o SubSeq(s.buf, pos + amt + 1, Len(s.buf)),
                     !.pos = pos + amt],
         n |-> amt]

\* Write::write of each sink
Write(s, data) ==
    CASE s.kind = WriterVecKind -> WriterVecWrite(s, data)
      [] s.kind = BytesMutKind -> BytesMutWrite(s, data)
      [] s.kind \in {CursorVecKind, CursorVecRefKind} -> CursorVecWrite(s, data)
      [] OTHER -> SliceWrite(s, data)

RECURSIVE WriteAllLoop(_, _)
\* Write::write_all, the provided method: write until nothing is left;
\* Ok(0) is the WriteZero error ("failed to write whole buffer")
WriteAllLoop(s, data) ==
    IF data = <<>>
    THEN [sink |-> s, ok |-> TRUE]
    ELSE LET r == Write(s, data)
         IN  IF r.n = 0
             THEN [sink |-> r.sink, ok |-> FALSE]
             ELSE WriteAllLoop(r.sink, SubSeq(data, r.n + 1, Len(data)))

\* <&mut [u8] as Write>::write_all: one write, an error when it was short
SliceWriteAll(s, data) ==
    LET r == SliceWrite(s, data)
    IN  [sink |-> r.sink, ok |-> r.n = Len(data)]

\* write_all of each sink
WriteAll(s, data) ==
    IF s.kind = ArrayKind THEN SliceWriteAll(s, data) ELSE WriteAllLoop(s, data)

RECURSIVE SerializeFields(_, _, _)
\* the field writes from the k-th on; the first error ends the call (`?`)
SerializeFields(s, writes, k) ==
    IF k > Len(writes)
    THEN [sink |-> s, ok |-> TRUE]
    ELSE LET r == WriteAll(s, writes[k])
         IN  IF r.ok THEN SerializeFields(r.sink, writes, k + 1) ELSE r

\* be_coder().serialize_into(sink, &item): DefaultOptions has no size
\* limit, so nothing is measured first; the fields are written one by one
serialize_into(s, item) == SerializeFields(s, FieldWrites(item), 1)

\* serialize_it: .unwrap() turns an Err into a panic; the return type is ()
serialize_it(item, s) ==
    LET r == serialize_into(s, item)
    IN  [sink |-> r.sink, result |-> IF r.ok THEN "Ok" ELSE Panic]

(***************************************************************************)
(* Spec: serialize_it called on a growable sink g and on a fixed sink f.   *)
(* Both start as the program creates them: g empty, f zero-filled.  A call *)
(* that panics unwinds the caller, so no further call is made on its sink. *)
(* The items are those of a build without overflow checks: every item a    *)
(* build with them can construct is among these.                           *)
(***************************************************************************)
\* the indices the items are built from: 1 (odd, the documented example) and
\* 0x010203FE (even, a wrapping `c`, no zero byte in `b` or in the low half
\* of `a`)
IndexSamples == {1, 16909310}

\* room left after whole records in the fixed sinks of Spec
Slack == {0, 5, 10}

FixedCaps == {ENCODED_SIZE * n + r : n \in 0..MaxRecords, r \in Slack}

WVIdle ==
    /\ wv = None
    /\ wlog = <<>>
    /\ wret = [op |-> None]
    /\ inner = [some |-> FALSE]

BenchIdle ==
    /\ bench = None
    /\ pc = None
    /\ ii = 0
    /\ bpos = 0
    /\ badv = {}
    /\ blen = 0
    /\ bsum = 0
    /\ made = [done |-> FALSE]

SpecIdle ==
    /\ g = None
    /\ f = None
    /\ ghist = <<>>
    /\ fhist = <<>>
    /\ gstatus = "Ok"
    /\ fstatus = "Ok"
    /\ last = [target |-> None]
    /\ emitted = {}

Init ==
    /\ overflow_checks = FALSE
    /\ g \in {CursorVecNew(CursorVecKind), CursorVecNew(CursorVecRefKind),
              WriterVecWithCapacity(0), BytesMutNew}
    /\ f \in {FixedNew(k, n) : k \in FixedKinds, n \in FixedCaps}
    /\ ghist = <<>>
    /\ fhist = <<>>
    /\ gstatus = "Ok"
    /\ fstatus = "Ok"
    /\ last = [target |-> None]
    /\ emitted = {}
    /\ WVIdle
    /\ BenchIdle

\* what one call leaves behind: the call itself, and the bytes that appeared
\* between the old and the new position when it returned
Call(target, item, before, r) ==
    [target |-> target, item |-> item, before |-> before,
     after |-> r.sink, result |-> r.result]

Emitted(item, before, r) ==
    IF r.result = "Ok"
    THEN {<<item, SubSeq(Content(r.sink), Position(before) + 1,
                         Position(r.sink))>>}
    ELSE {}

\* serialize_it(&MyStruct::new(i), &mut g)
SerializeG(i) ==
    /\ gstatus = "Ok"
    /\ Len(ghist) < MaxRecords
    /\ MyStructNew(i, overflow_checks).ok
    /\ LET item == MyStructNew(i, overflow_checks).item
           r == serialize_it(item, g)
       IN  /\ g' = r.sink
           /\ ghist' = Append(ghist, item)
           /\ gstatus' = r.result
           /\ last' = Call("g", item, g, r)
           /\ emitted' = emitted \cup Emitted(item, g, r)
    /\ UNCHANGED <<overflow_checks, f, fhist, fstatus, wvVars, benchVars>>

\* serialize_it(&MyStruct::new(i), &mut f)
SerializeF(i) ==
    /\ fstatus = "Ok"
    /\ Len(fhist) < MaxRecords
    /\ MyStructNew(i, overflow_checks).ok
    /\ LET item == MyStructNew(i, overflow_checks).item
           r == serialize_it(item, f)
       IN  /\ f' = r.sink
           /\ fhist' = Append(fhist, item)
           /\ fstatus' = r.result
           /\ last' = Call("f", item, f, r)
           /\ emitted' = emitted \cup Emitted(item, f, r)
    /\ UNCHANGED <<overflow_checks, g, ghist, gstatus, wvVars, benchVars>>

Next ==
    \/ \E i \in IndexSamples : SerializeG(i)
    \/ \E i \in IndexSamples : SerializeF(i)

Spec == Init /\ [][Next]_vars

(***************************************************************************)
(* SpecWV: a WriterVec made by new() or with_capacity(n) and driven        *)
(* through write, flush, serialize_it and into_inner.                      *)
(***************************************************************************)
\* with_capacity(n); 0 is WriterVec::new()
WVCaps == {0, 1, 4}

\* the byte strings handed to write
WVBufs == {<<>>, <<7>>, <<1, 2>>, <<255, 0, 9>>}

RECURSIVE Flatten(_)
Flatten(ss) == IF ss = <<>> THEN <<>> ELSE Head(ss) \o Flatten(Tail(ss))

WVInit ==
    /\ overflow_checks = FALSE
    /\ wv \in {WriterVecWithCapacity(n) : n \in WVCaps}
    /\ wlog = <<>>
    /\ wret = [op |-> None]
    /\ inner = [some |-> FALSE]
    /\ SpecIdle
    /\ BenchIdle

\* wv.write(buf)
WVWrite(buf) ==
    /\ ~inner.some
    /\ Len(wlog) + Len(buf) <= MaxWVBytes
    /\ LET r == WriterVecWrite(wv, buf)
       IN  /\ wv' = r.sink
           /\ wret' = [op |-> "write", ok |-> TRUE, n |-> r.n,
                       data |-> buf, before |-> wv]
    /\ wlog' = wlog \o buf
    /\ UNCHANGED <<overflow_checks, inner, specVars, benchVars>>

\* wv.flush(): Ok(())
WVFlush ==
    /\ ~inner.some
    /\ wret' = [op |-> "flush", ok |-> TRUE, before |-> wv]
    /\ UNCHANGED <<overflow_checks, wv, wlog, inner, specVars, benchVars>>

\* serialize_it(&MyStruct::new(i), &mut wv): one write per field
WVSerialize(i) ==
    /\ ~inner.some
    /\ Len(wlog) <= MaxWVBytes
    /\ MyStructNew(i, overflow_checks).ok
    /\ LET item == MyStructNew(i, overflow_checks).item
           r == serialize_it(item, wv)
       IN  /\ wv' = r.sink
           /\ wret' = [op |-> "serialize_it", result |-> r.result,
                       before |-> wv]
           /\ wlog' = wlog \o Flatten(FieldWrites(item))
    /\ UNCHANGED <<overflow_checks, inner, specVars, benchVars>>

\* wv.into_inner(): the Vec is moved out
WVIntoInner ==
    /\ ~inner.some
    /\ inner' = [some |-> TRUE, v |-> wv.buf]
    /\ wret' = [op |-> "into_inner"]
    /\ UNCHANGED <<overflow_checks, wv, wlog, specVars, benchVars>>

WVNext ==
    \/ \E buf \in WVBufs : WVWrite(buf)
    \/ WVFlush
    \/ \E i \in IndexSamples : WVSerialize(i)
    \/ WVIntoInner

SpecWV == WVInit /\ [][WVNext]_vars

(***************************************************************************)
(* SpecBench: the benchmark bodies, and MyStruct::new on each index their  *)
(* loops pass it, in a build with and in one without overflow checks.  A   *)
(* body makes its sink, serializes MyStruct::new(ii) for ii in             *)
(* 0..NUM_CHUNKS into it, then asserts the length (the four growable ones) *)
(* and the wrapping byte sum.  The sink is the body's local: what is kept  *)
(* of it is what the body read from it.                                    *)
(***************************************************************************)
Benches == {"do_cursor_vec", "do_cursor_vec_ref", "do_cursor_slice",
            "do_cursor_box", "do_bytesmut", "do_writervec", "do_array"}

\* the bodies with assert_eq!(v.len(), BUFFER_SIZE)
LenAsserted == {"do_cursor_vec", "do_cursor_vec_ref", "do_bytesmut",
                "do_writervec"}

\* the sink each body makes
BenchSink(b) ==
    CASE b = "do_cursor_vec" -> CursorVecNew(CursorVecKind)
      [] b = "do_cursor_vec_ref" -> CursorVecNew(CursorVecRefKind)
      [] b = "do_cursor_slice" -> FixedNew(CursorSliceKind, BUFFER_SIZE)
      [] b = "do_cursor_box" -> FixedNew(CursorBoxKind, BUFFER_SIZE)
      [] b = "do_bytesmut" -> BytesMutNew
      [] b = "do_writervec" -> WriterVecWithCapacity(BUFFER_SIZE)
      [] b = "do_array" -> FixedNew(ArrayKind, BUFFER_SIZE)

RECURSIVE SumRange(_, _, _)
\* s[lo] + ... + s[hi], split in halves (the additions in any order give the
\* same sum)
SumRange(s, lo, hi) ==
    IF lo > hi THEN 0
    ELSE IF lo = hi THEN s[lo]
    ELSE LET mid == (lo + hi) \div 2
         IN  SumRange(s, lo, mid) + SumRange(s, mid + 1, hi)

\* let s: u8 = v.iter().sum(): the u8 additions panic on overflow in a
\* build with overflow checks and wrap in one without
IterSum(s, checks) ==
    LET total == SumRange(s, 1, Len(s))
    IN  IF checks /\ total > 255
        THEN [ok |-> FALSE, s |-> 0]
        ELSE [ok |-> TRUE, s |-> total % 256]

\* one pass of `for ii in 0..NUM_CHUNKS`: MyStruct::new(i), then
\* serialize_it; a panic in either ends the body.  adv is by how much the
\* call moved the sink's position.
OnePass(sink, i, checks) ==
    LET new == MyStructNew(i, checks)
    IN  IF ~new.ok
        THEN [sink |-> sink, ii |-> i, panicked |-> TRUE, adv |-> {}]
        ELSE LET r == serialize_it(new.item, sink)
             IN  IF r.result = "Ok"
                 THEN [sink |-> r.sink, ii |-> i + 1, panicked |-> FALSE,
                       adv |-> {Position(r.sink) - Position(sink)}]
                 ELSE [sink |-> r.sink, ii |-> i, panicked |-> TRUE,
                       adv |-> {}]

RECURSIVE RunPasses(_, _, _, _)
\* n passes in order from index i on, as the first half of them followed by
\* the rest; nothing runs after a panic
RunPasses(sink, i, n, checks) ==
    IF n = 0
    THEN [sink |-> sink, ii |-> i, panicked |-> FALSE, adv |-> {}]
    ELSE IF n = 1 THEN OnePass(sink, i, checks)
    ELSE LET first == RunPasses(sink, i, n \div 2, checks)
         IN  IF first.panicked
             THEN first
             ELSE LET rest == RunPasses(first.sink, first.ii,
                                        n - (n \div 2), checks)
                  IN  [rest EXCEPT !.adv = first.adv \cup rest.adv]

BenchInit ==
    /\ overflow_checks \in BOOLEAN
    /\ \/ /\ bench \in Benches
          /\ pc = "start"
          /\ ii = 0
       \/ /\ bench = None
          /\ pc = "new"
          /\ ii \in 0..(NUM_CHUNKS - 1)
    /\ bpos = 0
    /\ badv = {}
    /\ blen = 0
    /\ bsum = 0
    /\ made = [done |-> FALSE]
    /\ SpecIdle
    /\ WVIdle

\* one benchmark body, from making the sink to its last assertion:
\* the loop, assert_eq!(v.len(), BUFFER_SIZE) where the body has it, the
\* sum, assert_eq!(s, 24)
BenchRun ==
    /\ pc = "start"
    /\ \E r \in {RunPasses(BenchSink(bench), 0, NUM_CHUNKS, overflow_checks)} :
       \E sum \in {IterSum(Content(r.sink), overflow_checks)} :
         LET v == Content(r.sink)
             lenOk == bench \in LenAsserted => Len(v) = BUFFER_SIZE
             summed == ~r.panicked /\ lenOk /\ sum.ok
         IN  /\ ii' = r.ii
             /\ bpos' = Position(r.sink)
             /\ badv' = r.adv
             /\ blen' = IF ~r.panicked /\ bench \in LenAsserted
                        THEN Len(v) ELSE blen
             /\ bsum' = IF summed THEN sum.s ELSE bsum
             /\ pc' = IF summed /\ sum.s = 24 THEN "done" ELSE "panicked"
    /\ UNCHANGED <<overflow_checks, bench, made, specVars, wvVars>>

\* MyStruct::new(ii)
New ==
    /\ pc = "new"
    /\ ~made.done
    /\ made' = [done |-> TRUE, out |-> MyStructNew(ii, overflow_checks)]
    /\ UNCHANGED <<overflow_checks, bench, pc, ii, bpos, badv, blen, bsum,
                   specVars, wvVars>>

BenchNext ==
    \/ BenchRun
    \/ New

SpecBench == BenchInit /\ [][BenchNext]_vars

(***************************************************************************)
(* Properties.                                                             *)
(***************************************************************************)
RECURSIVE Shr8(_, _)
\* v shifted right by j bytes
Shr8(v, j) == IF j = 0 THEN v ELSE Shr8(v \div 256, j - 1)

\* byte j of v, counted from the least significant
ByteOf(v, j) == Shr8(v, j) % 256

Called == last.target # None

Returned == Called /\ last.result = "Ok"

\* room left in a sink before a call
Remaining(s) == Len(s.buf) - Position(s)

Item1 == MyStructNew(1, FALSE).item

\* C1: a call of serialize_it that returns has put exactly 16 bytes at the
\* old position and changed nothing else: a in 8 bytes, most significant
\* first, b in 4, c in 1, d as 1 or 0, e in 2, with nothing before, between
\* or after them; the item built from index 1 gives
\* 00 00 00 00 00 00 00 02 00 00 00 03 04 01 AA 55.
C1_Layout ==
    Returned =>
        LET p == Position(last.before)
            old == Content(last.before)
            out == Content(last.after)
            it == last.item
        IN  /\ Position(last.after) = p + 16
            /\ \A k \in 0..7 : out[p + 1 + k] = ByteOf(it.a, 7 - k)
            /\ \A k \in 0..3 : out[p + 9 + k] = ByteOf(it.b, 3 - k)
            /\ out[p + 13] = it.c
            /\ out[p + 14] = (IF it.d THEN 1 ELSE 0)
            /\ out[p + 15] = ByteOf(it.e, 1)
            /\ out[p + 16] = ByteOf(it.e, 0)
            /\ SubSeq(out, 1, p) = SubSeq(old, 1, p)
            /\ Len(out) = Max(Len(old), p + 16)
            /\ SubSeq(out, p + 17, Len(out)) = SubSeq(old, p + 17, Len(old))
            /\ it = Item1 =>
                 SubSeq(out, p + 1, p + 16)
                   = <<0, 0, 0, 0, 0, 0, 0, 2, 0, 0, 0, 3, 4, 1, 170, 85>>

\* the index-1 item written as the second record of a fixed sink
C1_Witness ==
    /\ Returned
    /\ last.target = "f"
    /\ last.item = Item1
    /\ Position(last.before) = 16

\* C2: in every benchmark body each call of serialize_it that returned
\* moved the sink's position by exactly 16, and after K such calls on the
\* initially empty sink the position is 16 * K; after all 2048 the length
\* the four growable bodies assert on is 32768.
C2_SixteenPerRecord ==
    (bench # None /\ pc # "start") =>
        /\ badv \subseteq {16}
        /\ bpos = 16 * ii
        /\ (ii = 2048 /\ bench \in LenAsserted) => blen = 32768

C2_Witness ==
    /\ pc = "done"
    /\ bench = "do_writervec"
    /\ ii = 2048
    /\ badv = {16}
    /\ blen = 32768

\* C3: no call of serialize_it, returning or panicking, changes a byte
\* below the position it started at or moves the position back; after the
\* K-th call on a sink its first 16 * (K - 1) bytes are what they were
\* before that call.
C3_AppendOnly ==
    Called =>
        LET p == Position(last.before)
            k == IF last.target = "g" THEN Len(ghist) ELSE Len(fhist)
            done == Min(16 * (k - 1), Len(Content(last.before)))
        IN  /\ Position(last.after) >= p
            /\ SubSeq(Content(last.after), 1, p)
                 = SubSeq(Content(last.before), 1, p)
            /\ SubSeq(Content(last.after), 1, done)
                 = SubSeq(Content(last.before), 1, done)

\* a second record written behind a different first one, in either sink
C3_Witness ==
    /\ Returned
    /\ Len(ghist) = 2
    /\ Len(fhist) = 2
    /\ gstatus = "Ok"
    /\ fstatus = "Ok"
    /\ ghist[1] # ghist[2]
    /\ Position(last.before) = 16

\* C4: serialize_it on a fixed sink with less than 16 bytes of room hands
\* its caller a failure result (the capacity error) and leaves the sink's
\* content as it was.
C4_FailureResult ==
    (Called /\ last.target = "f" /\ Remaining(last.before) < 16) =>
        /\ last.result = "Err"
        /\ Content(last.after) = Content(last.before)

\* C5: a call of serialize_it on a fixed sink with some room, but less than
\* 16 bytes of it, writes no byte of the item and leaves the position where
\* it was.
C5_AtomicRecord ==
    (Called /\ last.target = "f"
       /\ 0 < Remaining(last.before) /\ Remaining(last.before) < 16) =>
        /\ Content(last.after) = Content(last.before)
        /\ Position(last.after) = Position(last.before)

\* C6: when the same N items have been serialized, in the same order, into
\* the growable sink and into a fixed sink made with exactly 16 * N bytes,
\* every call on either returned and the two hold the same bytes.
C6_BackendEquivalence ==
    (ghist = fhist /\ Len(Content(f)) = 16 * Len(fhist)) =>
        /\ gstatus = "Ok"
        /\ fstatus = "Ok"
        /\ Content(g) = Content(f)

C6_Witness ==
    /\ ghist = fhist
    /\ Len(fhist) = 2
    /\ fhist[1] # fhist[2]
    /\ Len(Content(f)) = 32
    /\ Content(g) = Content(f)

\* C7: two calls of serialize_it on equal items put the same bytes into
\* their sinks, whatever the sinks are and wherever in them the bytes go.
C7_Determinism ==
    \A x \in emitted : \A y \in emitted : x[1] = y[1] => x[2] = y[2]

\* the same item at offset 0 of the growable sink and offset 16 of the
\* fixed one
C7_Witness ==
    /\ Len(ghist) = 1
    /\ Len(fhist) = 2
    /\ gstatus = "Ok"
    /\ fstatus = "Ok"
    /\ fhist[2] = ghist[1]
    /\ fhist[1] # ghist[1]

\* C8: a benchmark body that has serialized all 2048 items finds the bytes
\* of its sink adding up to 24 modulo 256, so its last assertion passes.
C8_SumIs24 ==
    (bench # None /\ pc # "start" /\ ii = NUM_CHUNKS) =>
        /\ bsum = 24
        /\ pc = "done"

C8_Witness ==
    /\ pc = "done"
    /\ bench = "do_array"
    /\ ii = 2048
    /\ bpos = 32768
    /\ bsum = 24

\* C9: write on a WriterVec returns Ok(buf.len()) and leaves the old content
\* followed by buf, also when that passes the capacity it was made with;
\* flush returns Ok and changes nothing; into_inner returns every buf
\* written, in order.
C9_WriterVec ==
    /\ wret.op = "write" =>
         /\ wret.ok
         /\ wret.n = Len(wret.data)
         /\ wv.buf = wret.before.buf \o wret.data
    /\ wret.op = "flush" => wret.ok /\ wv = wret.before
    /\ wret.op = "serialize_it" => wret.result = "Ok"
    /\ ~inner.some => wv.buf = wlog
    /\ inner.some => inner.v = wlog

\* a write that takes a WriterVec made with_capacity(4) past 4 bytes
C9_Witness ==
    /\ wret.op = "write"
    /\ wret.before.cap = 4
    /\ Len(wret.before.buf) <= 4
    /\ Len(wv.buf) > 4
    /\ wret.n = Len(wret.data)

\* C10: for every index below 2048, MyStruct::new gives a = ii + 1,
\* b = ii + 2, c = (ii mod 256) + 3, d = (ii odd), e = 0xAA55, and no
\* addition leaves the width of its field.
C10_NewNeverOverflows ==
    made.done =>
        /\ made.out.ok
        /\ (ii % 256) + 3 <= 255
        /\ made.out.item = [a |-> ii + 1, b |-> ii + 2, c |-> (ii % 256) + 3,
                            d |-> (ii % 2 = 1), e |-> 43605]

====
